---- MODULE Spec2Model ----
(***************************************************************************)
(* A model of the NeoPixel effects engine (neopixel_effects/controller.py, *)
(* effects.py, devices.py): effects bound to devices, the per-device       *)
(* aggregation pass, and the fixed-rate uasyncio tick loop.                *)
(*                                                                         *)
(* Time is time.ticks_us() counted in coarse units (TicksPerSec units per  *)
(* second) on a wrapping counter of period TicksPeriod, as MicroPython's   *)
(* ticks_us()/ticks_diff() are.  The program runs on MicroPython (uasyncio,*)
(* ulab, machine): coroutines are cooperative, so user calls run only      *)
(* while the tick loop is suspended in asyncio.sleep, and a dict entry     *)
(* deleted while the dict is iterated is simply gone (MicroPython does not *)
(* detect the mutation; the remaining entries are still visited once).     *)
(***************************************************************************)
EXTENDS Integers, Sequences, FiniteSets, TLC

\* ------------------------------------------------------------- bounds
\* period of the wrapping ticks_us() counter, in model time units
TicksPeriod == 8
\* time_per_update_secs (1 / updates_freq_hz), in model time units
TimePerUpdate == 1
\* longest compute time of one tick, in model time units
MaxCompute == 1
\* effects ever created
MaxEffects == 2
\* tick-loop tasks ever created by start()
MaxTasks == 2
\* longest elapsed time of a direct call of an effect, in model time units
MaxProbeTime == 30

\* model time units per second (the source divides microseconds by 1e6)
TicksPerSec == 2

\* ------------------------------------------------------------ devices
\* the controller's devices, in the iteration order of self.devices.items()
DeviceOrder == <<"strip1", "strip2">>

DeviceNames == {DeviceOrder[k] : k \in 1..Len(DeviceOrder)}

\* a name the controller was not constructed with
UnknownName == "nope"

\* device.state_shape: <<num_pixels, num_channels>>
state_shape(d) == IF d = "strip1" THEN <<2, 3>> ELSE <<3, 3>>

\* the coroutines of the user that may await an effect's completion
Waiters == {"w1", "w2"}

\* ------------------------------------------------------- effect specs
MovingSpec(cls, t, color, rev, pp) ==
    [effect_cls |-> cls, total_effect_time |-> t, rgb_color |-> color,
     reversed |-> rev, indefinite_pingpong |-> pp,
     base_color |-> <<>>, additional_color |-> <<>>, freq |-> 0, cycle_time |-> 0,
     sigma |-> 1, decay_factor |-> 250]

\* GaussianMovingEffect.Spec: sigma in pixels
GaussianSpec(t, color, rev, pp, sigma) ==
    [MovingSpec("GaussianMovingEffect", t, color, rev, pp) EXCEPT !.sigma = sigma]

\* DecayMovingEffect.Spec: decay_factor in thousandths (0.25 is 250)
DecaySpec(t, color, rev, pp, decay_factor) ==
    [MovingSpec("DecayMovingEffect", t, color, rev, pp)
        EXCEPT !.decay_factor = decay_factor]

SinusSpec(base, add, f, ct) ==
    [effect_cls |-> "SinusEffect", total_effect_time |-> 0, rgb_color |-> <<>>,
     reversed |-> FALSE, indefinite_pingpong |-> FALSE,
     base_color |-> base, additional_color |-> add, freq |-> f, cycle_time |-> ct,
     sigma |-> 1, decay_factor |-> 250]

\* a single pixel that crosses the strip once in one second
Finite == MovingSpec("SinglePixelMovingEffect", 1, <<255, 0, 0>>, FALSE, FALSE)

\* a single pixel that goes back and forth for ever, on the reversed axis
PingPong == MovingSpec("SinglePixelMovingEffect", 1, <<255, 255, 255>>, TRUE, TRUE)

\* an endless pixel whose colour has four components, for devices of three
\* channels
BadColor == MovingSpec("SinglePixelMovingEffect", 1, <<0, 0, 0, 255>>, FALSE, TRUE)

\* SinusEffect.Spec() with its default arguments
Sinus == SinusSpec(<<16, 16, 16>>, <<8, 8, 8>>, 1, 1)

\* what the user submits, <<device name, spec>>, per scenario
Submissions ==
    { <<"strip1", Finite>>, <<"strip1", BadColor>>, <<"strip2", PingPong>>,
      <<"strip2", Sinus>>, <<UnknownName, Finite>> }

LifecycleSubmissions == { <<"strip1", Finite>>, <<"strip2", PingPong>> }

AwaitSubmissions == { <<"strip1", Finite>>, <<"strip2", BadColor>> }

BindSubmissions == { <<"strip1", Finite>>, <<"strip2", Finite>> }

\* ------------------------------------------------------------- state
VARIABLES
    now,             \* time.ticks_us()
    effects,         \* every Effect created: spec, device, _completion_event state
    active_effects,  \* per device: effect -> start time
    asyncio_task,    \* controller._asyncio_task (0 is None)
    tasks,           \* every task start() created: its state and remaining sleep
    tick,            \* the position of the task that is inside a tick
    waiters,         \* per user coroutine: its wait on a completion event
    ret,             \* the last user call and its outcome, until time moves on
    probe            \* the last direct call spec.with_device(device)(t) and its result

vars == <<now, effects, active_effects, asyncio_task, tasks, tick, waiters, ret,
          probe>>

\* ----------------------------------------------------------- helpers
Max(a, b) == IF a >= b THEN a ELSE b

Min(a, b) == IF a <= b THEN a ELSE b

\* int(): truncation toward zero of the rational n/q, q > 0
Trunc(n, q) == IF n >= 0 THEN n \div q ELSE -((-n) \div q)

\* time.ticks_diff(a, b) on the wrapping counter
ticks_diff(a, b) ==
    ((a - b + (TicksPeriod \div 2)) % TicksPeriod) - (TicksPeriod \div 2)

\* np.zeros(shape)
Zeros(shape) == [p \in 1..shape[1] |-> [c \in 1..shape[2] |-> 0]]

\* state[::-1]
ReverseFrame(f) == [p \in 1..Len(f) |-> f[Len(f) + 1 - p]]

\* a.shape of a pixel x channel matrix
ShapeOf(f) == <<Len(f), IF Len(f) = 0 THEN 0 ELSE Len(f[1])>>

\* ------------------------------------------------- effect evaluation
\* the result of effect(relative_time_secs): the exception raised ("" when
\* none), whether the call ran _set_completed(), whether it returned None, and
\* the state it returned otherwise
Returned(done, frame) ==
    [raised |-> "", completed |-> done, is_none |-> FALSE, out |-> frame]

Raised(exc) == [raised |-> exc, completed |-> FALSE, is_none |-> FALSE, out |-> <<>>]

\* state[idx] = rgb_color on an N x C matrix of zeros (idx as Python indexes:
\* a negative idx counts from the end, one outside -N..N-1 is an IndexError;
\* a colour of another length than C cannot be broadcast into the row)
SetRow(N, C, idx, color) ==
    IF idx >= N \/ idx < -N THEN Raised("IndexError")
    ELSE IF Len(color) # C /\ Len(color) # 1 THEN Raised("ValueError")
    ELSE LET row == IF idx >= 0 THEN idx + 1 ELSE N + idx + 1
         IN  Returned(FALSE,
                 [p \in 1..N |-> [c \in 1..C |->
                     IF p = row
                     THEN (IF Len(color) = 1 THEN color[1] ELSE color[c])
                     ELSE 0]])

\* SinglePixelMovingEffect._calculate_state; current_pos is pos_num / q
SinglePixelCalculateState(spec, pos_num, q, N, C) ==
    SetRow(N, C, Trunc(pos_num, q), spec.rgb_color)

\* 1000 * exp(-y / 1000) for y >= 0 (fixed point; the source computes in
\* floats): the reciprocal of the cubic Taylor polynomial of exp(y)
ExpNegMilli(y) ==
    LET y2 == (y * y) \div 1000
        y3 == (y2 * y) \div 1000
    IN  1000000 \div (1000 + y + y2 \div 2 + y3 \div 6)

\* GaussianMovingEffect._normed_gaussian(x, mu, sigma) in thousandths, for
\* x - mu = d_num / q
NormedGaussianMilli(d_num, q, sigma) ==
    ExpNegMilli((500 * d_num * d_num) \div (q * q * sigma * sigma))

\* GaussianMovingEffect._calculate_state: rgb_color.reshape((1, C)) fails for a
\* colour of another size than C
GaussianCalculateState(spec, pos_num, q, N, C) ==
    IF Len(spec.rgb_color) # C THEN Raised("ValueError")
    ELSE IF spec.sigma = 0 THEN Raised("ZeroDivisionError")
    ELSE Returned(FALSE,
             [p \in 1..N |-> [c \in 1..C |->
                 (spec.rgb_color[c]
                    * NormedGaussianMilli((p - 1) * q - pos_num, q, spec.sigma))
                 \div 1000]])

\* f ** n in thousandths, for f in thousandths and a natural n
RECURSIVE PowMilli(_, _)
PowMilli(f, n) == IF n = 0 THEN 1000 ELSE (f * PowMilli(f, n - 1)) \div 1000

\* decay_factor ** exponent in thousandths for exponent = e_num / q (fixed
\* point: linear between two whole exponents); a negative exponent was set
\* to np.inf, and decay_factor ** inf is 0
DecayMilli(f, e_num, q) ==
    IF e_num < 0 THEN 0
    ELSE LET n  == e_num \div q
             lo == PowMilli(f, n)
             hi == PowMilli(f, n + 1)
         IN  lo - ((lo - hi) * (e_num % q)) \div q

\* DecayMovingEffect._calculate_state
DecayCalculateState(spec, pos_num, q, N, C) ==
    IF Len(spec.rgb_color) # C THEN Raised("ValueError")
    ELSE Returned(FALSE,
             [p \in 1..N |-> [c \in 1..C |->
                 (spec.rgb_color[c]
                    * DecayMilli(spec.decay_factor, pos_num - (p - 1) * q, q))
                 \div 1000]])

\* self._calculate_state(current_pos, num_pixels, num_channels)
CalculateState(spec, pos_num, q, N, C) ==
    IF spec.effect_cls = "GaussianMovingEffect"
    THEN GaussianCalculateState(spec, pos_num, q, N, C)
    ELSE IF spec.effect_cls = "DecayMovingEffect"
    THEN DecayCalculateState(spec, pos_num, q, N, C)
    ELSE SinglePixelCalculateState(spec, pos_num, q, N, C)

\* for comparison: the position without the clamp to the last pixel
CurrentPosNumUnclamped(spec, r, q, N) ==
    LET m == r % (2 * q)
    IN  IF spec.indefinite_pingpong
        THEN N * (m - 2 * Max(m - q, 0))
        ELSE N * r

\* for comparison: a pingpong position that restarts instead of turning back
CurrentPosNumSawtooth(spec, r, q, N) ==
    LET m   == r % (2 * q)
        pos == IF spec.indefinite_pingpong
               THEN N * (IF m > q THEN m - q ELSE m)
               ELSE N * r
    IN  Min(pos, (N - 1) * q)

\* current_pos * q, for relative_time_secs = r / TicksPerSec and
\* q = total_effect_time * TicksPerSec (so frac = r / q)
CurrentPosNum(spec, r, q, N) ==
    LET m   == r % (2 * q)
        pos == IF spec.indefinite_pingpong
               THEN N * (m - 2 * Max(m - q, 0))
               ELSE N * r
    IN  Min(pos, (N - 1) * q)

\* for comparison: __call__ that completes as soon as the duration is reached
MovingCallEndsAtDuration(spec, shape, r) ==
    LET q == spec.total_effect_time * TicksPerSec
    IN  IF (~spec.indefinite_pingpong) /\ r >= q
        THEN Returned(TRUE, Zeros(shape))
        ELSE IF q = 0 THEN Raised("ZeroDivisionError")
        ELSE LET st == CalculateState(spec, CurrentPosNum(spec, r, q, shape[1]),
                                      q, shape[1], shape[2])
             IN  IF st.raised # "" THEN st
                 ELSE IF spec.reversed THEN Returned(FALSE, ReverseFrame(st.out))
                 ELSE st

\* for comparison: __call__ whose completion test ignores indefinite_pingpong
MovingCallIgnoresPingpong(spec, shape, r) ==
    LET q == spec.total_effect_time * TicksPerSec
    IN  IF r > q
        THEN Returned(TRUE, Zeros(shape))
        ELSE IF q = 0 THEN Raised("ZeroDivisionError")
        ELSE LET st == CalculateState(spec, CurrentPosNum(spec, r, q, shape[1]),
                                      q, shape[1], shape[2])
             IN  IF st.raised # "" THEN st
                 ELSE IF spec.reversed THEN Returned(FALSE, ReverseFrame(st.out))
                 ELSE st

\* for comparison: __call__ without its `if self.spec.reversed` step
MovingCallIgnoresReversed(spec, shape, r) ==
    LET q == spec.total_effect_time * TicksPerSec
    IN  IF (~spec.indefinite_pingpong) /\ r > q
        THEN Returned(TRUE, Zeros(shape))
        ELSE IF q = 0 THEN Raised("ZeroDivisionError")
        ELSE CalculateState(spec, CurrentPosNum(spec, r, q, shape[1]),
                            q, shape[1], shape[2])

\* MovingEffect.__call__(relative_time_secs), relative_time_secs = r / TicksPerSec
MovingCall(spec, shape, r) ==
    LET q == spec.total_effect_time * TicksPerSec
    IN  IF (~spec.indefinite_pingpong) /\ r > q
        THEN Returned(TRUE, Zeros(shape))
        ELSE IF q = 0 THEN Raised("ZeroDivisionError")
        ELSE LET st == CalculateState(spec, CurrentPosNum(spec, r, q, shape[1]),
                                      q, shape[1], shape[2])
             IN  IF st.raised # "" THEN st
                 ELSE IF spec.reversed THEN Returned(FALSE, ReverseFrame(st.out))
                 ELSE st

\* 1000 * sin(y / 100) for an angle of y hundredths of a radian (fixed point,
\* Bhaskara's rational approximation; the source computes in floats)
SinMilli(y) ==
    LET z == y % 628
        h == IF z <= 314 THEN z ELSE z - 314
        v == (16000 * h * (314 - h)) \div (492980 - 4 * h * (314 - h))
    IN  IF z <= 314 THEN v ELSE -v

\* SinusEffect.__call__(relative_time_secs): never completes
SinusCall(spec, shape, r) ==
    LET N   == shape[1]
        C   == shape[2]
        rel == ((628 * r) \div (TicksPerSec * spec.cycle_time)) % 100
        ang(p) == IF N = 1 THEN rel
                  ELSE rel + ((p - 1) * 628 * spec.freq) \div (N - 1)
        sin_values(p) == 500 + SinMilli(ang(p)) \div 2
    IN  IF spec.cycle_time = 0 THEN Raised("ZeroDivisionError")
        ELSE IF Len(spec.base_color) # C \/ Len(spec.additional_color) # C
        THEN Raised("ValueError")
        ELSE Returned(FALSE,
                 [p \in 1..N |-> [c \in 1..C |->
                     spec.base_color[c]
                       + (sin_values(p) * spec.additional_color[c]) \div 1000]])

\* effect(relative_time_secs=...) for an effect of this spec on this shape
Call(spec, shape, r) ==
    IF spec.effect_cls = "SinusEffect" THEN SinusCall(spec, shape, r)
    ELSE MovingCall(spec, shape, r)

\* ------------------------------------------------------- compositing
\* np.sum(state_matrix, axis=0) of the rows of an (n,) + shape matrix
RECURSIVE SumRows(_, _)
SumRows(rows, shape) ==
    IF rows = <<>> THEN Zeros(shape)
    ELSE LET rest == SumRows(Tail(rows), shape)
         IN  [p \in 1..shape[1] |-> [c \in 1..shape[2] |->
                 rows[1][p][c] + rest[p][c]]]

\* for comparison: no clipping
ClipNone(f) == f

\* np.clip(state_matrix, 0, 255)
Clip(f) == [p \in 1..Len(f) |-> [c \in 1..Len(f[p]) |-> Max(0, Min(255, f[p][c]))]]

\* ------------------------------------------------------------- Init
\* no task is inside a tick
NoTick == [task |-> 0, current_ticks_us |-> 0, dev |-> 0, todo |-> {},
           i |-> 0, state_matrix |-> <<>>, was_active |-> {}, called |-> {},
           forwarded |-> <<>>]

NoCall == [op |-> "none", result |-> "ok"]

NotWaiting == [st |-> "idle", e |-> 0]

\* no effect was called directly yet
NoProbe == [op |-> "none", spec |-> Finite, device |-> DeviceOrder[1], r |-> 0,
            pos |-> 0, result |-> Returned(FALSE, <<>>)]

\* NeoPixelEffectsController.__init__: a ControllerDevice with no active
\* effects per device, no task
Init ==
    /\ now = 0
    /\ effects = <<>>
    /\ active_effects = [d \in DeviceNames |-> <<>>]
    /\ asyncio_task = 0
    /\ tasks = <<>>
    /\ tick = NoTick
    /\ waiters = [w \in Waiters |-> NotWaiting]
    /\ ret = NoCall
    /\ probe = NoProbe

\* for comparison: a tick body that yields to other coroutines
UserAlwaysRuns == TRUE

\* the user's coroutines run only while no task is inside a tick: the tick
\* body has no await before its asyncio.sleep
UserMayRun == tick.task = 0

\* ------------------------------------------------- completion events
\* for comparison: set() that schedules nobody
EventSetWakesNobody(ws, e) == ws

\* asyncio.Event.set() as seen by the coroutines waiting on effect e: each is
\* scheduled to run
EventSet(ws, e) ==
    [w \in Waiters |->
        IF ws[w].st = "waiting" /\ ws[w].e = e THEN [st |-> "ready", e |-> e]
        ELSE ws[w]]

\* for comparison: a completion event kept per spec, shared by its effects
SetCompletedBySpec(effs, e) ==
    [f \in 1..Len(effs) |->
        IF effs[f].spec = effs[e].spec THEN [effs[f] EXCEPT !.completed = TRUE]
        ELSE effs[f]]

\* Effect._set_completed on the effect objects
SetCompleted(effs, e) == [effs EXCEPT ![e].completed = TRUE]

\* Effect.is_completed
is_completed(e) == effects[e].completed

\* ------------------------------------------------------ user actions
\* for comparison: a lookup that falls back to the first device
GetDeviceOrFirst(name) == IF name \in DeviceNames THEN name ELSE DeviceOrder[1]

\* self.devices[device_name]: the ControllerDevice, or a KeyError
GetDevice(name) == IF name \in DeviceNames THEN name ELSE "KeyError"

\* ctl.devices[name].add_effect(effect_spec)
AddEffect(name, spec) ==
    /\ UserMayRun
    /\ Len(effects) < MaxEffects
    /\ LET d == GetDevice(name)
           e == Len(effects) + 1
       IN  IF d = "KeyError"
           THEN /\ ret' = [op |-> "add_effect", result |-> "KeyError"]
                /\ UNCHANGED <<effects, active_effects>>
           ELSE /\ effects' = Append(effects,
                                 [spec |-> spec, device |-> d, completed |-> FALSE])
                /\ active_effects' =
                       [active_effects EXCEPT ![d] = @ @@ (e :> now)]
                /\ ret' = [op |-> "add_effect", result |-> "ok"]
    /\ UNCHANGED <<now, asyncio_task, tasks, tick, waiters, probe>>

\* effect.cancel()
Cancel(e) ==
    /\ UserMayRun
    /\ e \in 1..Len(effects)
    /\ effects' = SetCompleted(effects, e)
    /\ waiters' = EventSet(waiters, e)
    /\ ret' = [op |-> "cancel", result |-> "ok"]
    /\ UNCHANGED <<now, active_effects, asyncio_task, tasks, tick, probe>>

\* a coroutine calls effect.await_completion(): Event.wait() returns at once
\* when the event is set, and suspends the caller otherwise
AwaitCompletion(w, e) ==
    /\ UserMayRun
    /\ e \in 1..Len(effects)
    /\ waiters[w].st = "idle"
    /\ waiters' = [waiters EXCEPT ![w] =
                      IF is_completed(e) THEN NotWaiting
                      ELSE [st |-> "waiting", e |-> e]]
    /\ UNCHANGED <<now, effects, active_effects, asyncio_task, tasks, tick, ret, probe>>

\* a coroutine scheduled by Event.set() resumes from await_completion()
Resume(w) ==
    /\ UserMayRun
    /\ waiters[w].st = "ready"
    /\ waiters' = [waiters EXCEPT ![w] = NotWaiting]
    /\ UNCHANGED <<now, effects, active_effects, asyncio_task, tasks, tick, ret, probe>>

\* asyncio.create_task(_start()): a new task, ready to run
CreateTask(ts) == Append(ts, [st |-> "sleeping", sleep_left |-> 0])

\* controller.start()
Start ==
    /\ UserMayRun
    /\ Len(tasks) < MaxTasks
    /\ tasks' = CreateTask(tasks)
    /\ asyncio_task' = Len(tasks')
    /\ ret' = [op |-> "start", result |-> "ok"]
    /\ UNCHANGED <<now, effects, active_effects, tick, waiters, probe>>

\* task.cancel(): a task suspended in asyncio.sleep ends there; a task that is
\* done stays as it is
TaskCancel(ts, t) ==
    IF ts[t].st = "sleeping"
    THEN [ts EXCEPT ![t] = [st |-> "cancelled", sleep_left |-> 0]]
    ELSE ts

\* for comparison: stop() without its `is not None` test
StopCallUnchecked(ts, at) ==
    IF at # 0
    THEN [tasks |-> TaskCancel(ts, at), asyncio_task |-> 0, result |-> "ok"]
    ELSE [tasks |-> ts, asyncio_task |-> at, result |-> "AttributeError"]

\* controller.stop(): the new tasks and _asyncio_task, and the outcome
StopCall(ts, at) ==
    IF at # 0
    THEN [tasks |-> TaskCancel(ts, at), asyncio_task |-> 0, result |-> "ok"]
    ELSE [tasks |-> ts, asyncio_task |-> at, result |-> "ok"]

Stop ==
    /\ UserMayRun
    /\ LET r == StopCall(tasks, asyncio_task)
       IN  /\ tasks' = r.tasks
           /\ asyncio_task' = r.asyncio_task
           /\ ret' = [op |-> "stop", result |-> r.result]
    /\ UNCHANGED <<now, effects, active_effects, tick, waiters, probe>>

\* ------------------------------------------------------ the tick loop
\* ControllerDevice.update, up to the loop over active_effects.items(): the
\* zeroed (num_effects,) + shape matrix and the iterator over the dict.
\* was_active and called record the pass for the properties: the effects that
\* were not completed when the pass started, and those it has called.
BeginUpdate(tk, k) ==
    LET d == DeviceOrder[k]
        n == Cardinality(DOMAIN active_effects[d])
    IN  [tk EXCEPT !.dev = k,
                   !.todo = DOMAIN active_effects[d],
                   !.i = 0,
                   !.state_matrix = [j \in 1..n |-> Zeros(state_shape(d))],
                   !.was_active = {e \in DOMAIN active_effects[d] : ~is_completed(e)},
                   !.called = {}]

\* for comparison: a removal that leaves the dict as it is
DelEffectKeeps(act, e) == act

\* del self.active_effects[effect]
DelEffect(act, e) ==
    IF DOMAIN act = {e} THEN <<>>
    ELSE [x \in (DOMAIN act) \ {e} |-> act[x]]

\* an exception leaves _start(): the task is done
TaskFail(ts, t) == [ts EXCEPT ![t] = [st |-> "failed", sleep_left |-> 0]]

\* a task leaves asyncio.sleep and starts a tick: it reads the clock and
\* enters update() of the first device
TickBegin(t) ==
    /\ tick.task = 0
    /\ t \in 1..Len(tasks)
    /\ tasks[t].st = "sleeping"
    /\ tasks[t].sleep_left = 0
    /\ tasks' = [tasks EXCEPT ![t].st = "running"]
    /\ tick' = BeginUpdate([NoTick EXCEPT !.task = t, !.current_ticks_us = now], 1)
    /\ ret' = NoCall
    /\ UNCHANGED <<now, effects, active_effects, asyncio_task, waiters, probe>>

\* for comparison: a loop body that evaluates every effect
EvaluatesAll(e) == TRUE

\* whether the loop body evaluates the effect: `if not effect.is_completed`
Evaluates(e) == ~is_completed(e)

\* one iteration of `for i, (effect, effect_start_time) in enumerate(...)`.
\* The order in which the dict yields its keys is not specified.
Visit(e) ==
    /\ tick.task # 0
    /\ tick.dev <= Len(DeviceOrder)
    /\ e \in tick.todo
    /\ LET d     == DeviceOrder[tick.dev]
           shape == state_shape(d)
           rel   == ticks_diff(tick.current_ticks_us, active_effects[d][e])
           c1    == Call(effects[e].spec, shape, rel)
           c2    == Call(effects[e].spec, shape, rel)
           next  == [tick EXCEPT !.todo = @ \ {e}, !.i = @ + 1]
       IN  IF Evaluates(e)
           THEN IF c1.raised # ""
                THEN /\ tasks' = TaskFail(tasks, tick.task)
                     /\ tick' = NoTick
                     /\ UNCHANGED <<effects, active_effects, waiters>>
                ELSE /\ effects' = IF c1.completed \/ (~c1.is_none /\ c2.completed)
                                   THEN SetCompleted(effects, e) ELSE effects
                     /\ waiters' = IF c1.completed \/ (~c1.is_none /\ c2.completed)
                                   THEN EventSet(waiters, e) ELSE waiters
                     /\ IF ~c1.is_none
                        THEN IF c2.raised # ""
                             THEN /\ tasks' = TaskFail(tasks, tick.task)
                                  /\ tick' = NoTick
                                  /\ UNCHANGED active_effects
                             ELSE /\ tick' = [next EXCEPT
                                        !.state_matrix[tick.i + 1] = c2.out,
                                        !.called = @ \cup {e}]
                                  /\ UNCHANGED <<tasks, active_effects>>
                        ELSE /\ active_effects' =
                                    [active_effects EXCEPT ![d] = DelEffect(@, e)]
                             /\ tick' = [next EXCEPT !.called = @ \cup {e}]
                             /\ UNCHANGED tasks
           ELSE /\ active_effects' = [active_effects EXCEPT ![d] = DelEffect(@, e)]
                /\ tick' = next
                /\ UNCHANGED <<effects, tasks, waiters>>
    /\ UNCHANGED <<now, asyncio_task, ret, probe>>

\* NeoPixelDevice._validate_state_shape
ValidShape(d, state) == ShapeOf(state) = state_shape(d)

\* the state update() gives to device.update_state: the clipped sum
Composite(state_matrix, shape) == Clip(SumRows(state_matrix, shape))

\* the end of ControllerDevice.update (sum, clip, device.update_state), and
\* the entry into update() of the next device if there is one
UpdateEnd ==
    /\ tick.task # 0
    /\ tick.dev <= Len(DeviceOrder)
    /\ tick.todo = {}
    /\ LET d     == DeviceOrder[tick.dev]
           state == Composite(tick.state_matrix, state_shape(d))
           sent  == [tick EXCEPT !.forwarded = Append(@, state),
                                 !.dev = @ + 1,
                                 !.state_matrix = <<>>,
                                 !.i = 0, !.was_active = {}, !.called = {}]
       IN  IF ~ValidShape(d, state)
           THEN /\ tasks' = TaskFail(tasks, tick.task)
                /\ tick' = NoTick
           ELSE /\ tick' = IF tick.dev < Len(DeviceOrder)
                           THEN BeginUpdate(sent, tick.dev + 1)
                           ELSE sent
                /\ UNCHANGED tasks
    /\ UNCHANGED <<now, effects, active_effects, asyncio_task, waiters, ret, probe>>

\* sleep_time = max(0, self.time_per_update_secs - cycle_time_secs)
SleepTime(start_ticks_us) ==
    Max(0, TimePerUpdate - ticks_diff(now, start_ticks_us))

\* the end of the tick: every device was updated, the task awaits
\* asyncio.sleep(sleep_time)
Sleep ==
    /\ tick.task # 0
    /\ tick.dev > Len(DeviceOrder)
    /\ tasks' = [tasks EXCEPT ![tick.task] =
                    [st |-> "sleeping",
                     sleep_left |-> SleepTime(tick.current_ticks_us)]]
    /\ tick' = NoTick
    /\ UNCHANGED <<now, effects, active_effects, asyncio_task, waiters, ret, probe>>

\* the clock advances by one unit.  A task whose sleep is over runs before
\* the clock moves on, and one tick computes for at most MaxCompute units.
AdvanceTime ==
    /\ IF tick.task # 0
       THEN ticks_diff(now, tick.current_ticks_us) < MaxCompute
       ELSE \A t \in 1..Len(tasks) :
                tasks[t].st = "sleeping" => tasks[t].sleep_left > 0
    /\ now' = (now + 1) % TicksPeriod
    /\ tasks' = [t \in 1..Len(tasks) |->
                    IF tasks[t].st = "sleeping"
                    THEN [tasks[t] EXCEPT !.sleep_left = Max(0, @ - 1)]
                    ELSE tasks[t]]
    /\ ret' = NoCall
    /\ UNCHANGED <<effects, active_effects, asyncio_task, tick, waiters, probe>>

\* ------------------------------------------------------ specification
\* the steps of the tick loop
LoopStep ==
    \/ \E t \in 1..MaxTasks : TickBegin(t)
    \/ \E e \in 1..MaxEffects : Visit(e)
    \/ UpdateEnd
    \/ Sleep

\* the engine: effects are submitted and cancelled while a controller that is
\* started once, and stopped at any time, runs its loop
Next ==
    \/ \E sub \in Submissions : AddEffect(sub[1], sub[2])
    \/ \E e \in 1..MaxEffects : Cancel(e)
    \/ (tasks = <<>> /\ Start)
    \/ Stop
    \/ LoopStep
    \/ AdvanceTime

Spec == Init /\ [][Next]_vars

\* the controller's life cycle: start() and stop() in any order
LifecycleNext ==
    \/ \E sub \in LifecycleSubmissions : AddEffect(sub[1], sub[2])
    \/ Start
    \/ Stop
    \/ LoopStep
    \/ AdvanceTime

LifecycleSpec == Init /\ [][LifecycleNext]_vars

\* coroutines awaiting the completion of effects
AwaitNext ==
    \/ \E sub \in AwaitSubmissions : AddEffect(sub[1], sub[2])
    \/ \E e \in 1..MaxEffects : Cancel(e)
    \/ \E w \in Waiters, e \in 1..MaxEffects : AwaitCompletion(w, e)
    \/ \E w \in Waiters : Resume(w)
    \/ (tasks = <<>> /\ Start)
    \/ LoopStep
    \/ AdvanceTime

AwaitSpec == Init /\ [][AwaitNext]_vars

\* the scheduling of uasyncio and the clock: a task that can run does run,
\* a coroutine that was scheduled resumes, and time passes
FairSpec ==
    /\ AwaitSpec
    /\ WF_vars(LoopStep)
    /\ WF_vars(AdvanceTime)
    /\ \A w \in Waiters : WF_vars(Resume(w))

\* one spec bound several times, to one device or to both, with coroutines
\* awaiting the effects
BindNext ==
    \/ \E sub \in BindSubmissions : AddEffect(sub[1], sub[2])
    \/ \E e \in 1..MaxEffects : Cancel(e)
    \/ \E w \in Waiters, e \in 1..MaxEffects : AwaitCompletion(w, e)
    \/ \E w \in Waiters : Resume(w)
    \/ (tasks = <<>> /\ Start)
    \/ LoopStep
    \/ AdvanceTime

BindSpec == Init /\ [][BindNext]_vars

\* ------------------------------------------- effects called directly
\* the durations (total_effect_time, in seconds), colours and specs of the
\* effects that are called directly.  With these durations and the devices'
\* sizes every position the source computes in floats is an exact binary
\* fraction or lies away from a whole number, so int() agrees with Trunc.
ProbeDurations == {1, 2, 5}

ProbeColors == { <<255, 0, 0>>, <<10, 20, 30>> }

ProbeSpecs ==
    { MovingSpec("SinglePixelMovingEffect", t, c, rev, pp) :
          t \in ProbeDurations, c \in ProbeColors,
          rev \in BOOLEAN, pp \in BOOLEAN }
    \cup { GaussianSpec(t, c, rev, pp, 1) :
          t \in ProbeDurations, c \in ProbeColors,
          rev \in BOOLEAN, pp \in BOOLEAN }
    \cup { DecaySpec(t, c, rev, pp, 250) :
          t \in ProbeDurations, c \in ProbeColors,
          rev \in BOOLEAN, pp \in BOOLEAN }
    \cup { Sinus }

\* the current_pos (times q) that MovingEffect.__call__ passes to
\* _calculate_state, 0 for a call that computes none
PosOf(spec, shape, r) ==
    LET q == spec.total_effect_time * TicksPerSec
    IN  IF spec.effect_cls = "SinusEffect" \/ q = 0 THEN 0
        ELSE IF (~spec.indefinite_pingpong) /\ r > q THEN 0
        ELSE CurrentPosNum(spec, r, q, shape[1])

\* effect = spec.with_device(device), outside any controller
BindEffect(spec, d) ==
    /\ probe.op = "none"
    /\ probe' = [NoProbe EXCEPT !.op = "bound", !.spec = spec, !.device = d,
                                !.r = -1]
    /\ UNCHANGED <<now, effects, active_effects, asyncio_task, tasks, tick,
                   waiters, ret>>

\* effect(relative_time_secs) on the bound effect at the next elapsed time,
\* relative_time_secs = r / TicksPerSec
CallEffect ==
    /\ probe.op # "none"
    /\ probe.r < MaxProbeTime
    /\ LET r     == probe.r + 1
           shape == state_shape(probe.device)
       IN  probe' = [probe EXCEPT !.op = "call", !.r = r,
                                  !.pos = PosOf(probe.spec, shape, r),
                                  !.result = Call(probe.spec, shape, r)]
    /\ UNCHANGED <<now, effects, active_effects, asyncio_task, tasks, tick,
                   waiters, ret>>

\* effects of every family evaluated at every elapsed time
ProbeNext ==
    \/ \E spec \in ProbeSpecs, d \in DeviceNames : BindEffect(spec, d)
    \/ CallEffect

ProbeSpec == Init /\ [][ProbeNext]_vars

\* ------------------------------------------------------------ claims
\* the device whose update() the running task is in
InPass == tick.task # 0 /\ tick.dev <= Len(DeviceOrder)

PassDevice == DeviceOrder[tick.dev]

\* the pass has visited every effect and has not yet summed
PassIterated == InPass /\ tick.todo = {}

\* the tasks whose loop is still running
LiveTasks == {t \in 1..Len(tasks) : tasks[t].st \in {"sleeping", "running"}}

\* the frame effect e of device d gives at the tick's timestamp
EffectFrame(d, e) ==
    Call(effects[e].spec, state_shape(d),
         ticks_diff(tick.current_ticks_us, active_effects[d][e])).out

RECURSIVE SumFrames(_, _)
SumFrames(S, d) ==
    IF S = {} THEN Zeros(state_shape(d))
    ELSE LET e    == CHOOSE x \in S : TRUE
             rest == SumFrames(S \ {e}, d)
             f    == EffectFrame(d, e)
         IN  [p \in 1..state_shape(d)[1] |-> [c \in 1..state_shape(d)[2] |->
                 f[p][c] + rest[p][c]]]

\* C1: when a pass has iterated over a device's active set, every effect
\* still in the set that is Completed was Active when this pass started (it
\* completed during this pass): an effect that was Completed before the
\* pass, by crossing its threshold in the previous tick or by cancel(), is
\* absent once the pass has run.
C1_CompletedEffectsRemoved ==
    PassIterated =>
        \A e \in DOMAIN active_effects[PassDevice] :
            is_completed(e) => e \in tick.was_active

\* a pass that has removed an effect
C1_Witness ==
    /\ PassIterated
    /\ Len(tick.state_matrix) > Cardinality(DOMAIN active_effects[PassDevice])

\* C2: whenever a tick ends, it has forwarded exactly one frame to each
\* device, and the frame forwarded for an empty active set is all zeros.
C2_OneFramePerTick ==
    [][ /\ (tick.task # 0 /\ tick'.task = 0) =>
               Len(tick.forwarded) = Len(DeviceOrder)
        /\ (PassIterated /\ tick.state_matrix = <<>>
                /\ Len(tick'.forwarded) = Len(tick.forwarded) + 1) =>
               tick'.forwarded[Len(tick'.forwarded)] = Zeros(state_shape(PassDevice))
      ]_vars

\* C3: cancel() marks the effect Completed at once, whatever its family and
\* elapsed time; a pass never calls an effect that is Completed, and the
\* frame it forwards is the clipped sum of the frames of the effects it
\* called, so a Completed effect contributes nothing.
C3_CancelledNotEvaluated ==
    [][ /\ \A e \in 1..Len(effects) : Cancel(e) => effects'[e].completed
        /\ \A e \in 1..Len(effects) :
               (is_completed(e) /\ e \in tick'.called) => e \in tick.called
        /\ (PassIterated /\ Len(tick'.forwarded) = Len(tick.forwarded) + 1) =>
               tick'.forwarded[Len(tick'.forwarded)]
                   = Clip(SumFrames(tick.called, PassDevice))
      ]_vars

\* a pass has removed, without calling it, an endless effect that was cancelled
C3_Witness ==
    /\ PassIterated
    /\ \E e \in 1..Len(effects) :
           /\ effects[e].device = PassDevice
           /\ effects[e].spec.indefinite_pingpong \/ effects[e].spec.effect_cls = "SinusEffect"
           /\ is_completed(e)
           /\ e \notin DOMAIN active_effects[PassDevice]
           /\ e \notin tick.called
           /\ Len(tick.state_matrix) > Cardinality(DOMAIN active_effects[PassDevice])

\* C4: no coroutine is suspended on the event of a Completed effect and none
\* is scheduled to resume for an Active one: set() schedules every waiter;
\* a coroutine leaves await_completion() only for a Completed effect, and one
\* that awaits a Completed effect is not suspended.
C4_CompletionBroadcast ==
    /\ [](\A w \in Waiters :
             /\ waiters[w].st = "waiting" => ~is_completed(waiters[w].e)
             /\ waiters[w].st = "ready" => is_completed(waiters[w].e))
    /\ [][ /\ \A w \in Waiters :
                  (waiters[w].st # "idle" /\ waiters'[w].st = "idle") =>
                      is_completed(waiters[w].e)
           /\ \A w \in Waiters, e \in 1..Len(effects) :
                  (AwaitCompletion(w, e) /\ is_completed(e)) =>
                      waiters'[w].st = "idle"
         ]_vars

\* every waiting coroutine was scheduled by the completion of one effect
C4_Witness ==
    \E e \in 1..Len(effects) :
        \A w \in Waiters : waiters[w] = [st |-> "ready", e |-> e]

\* effect e exists and is a moving effect of finite positive duration that is
\* not in pingpong mode
FiniteEffect(e) ==
    IF e \in 1..Len(effects)
    THEN /\ effects[e].spec.effect_cls # "SinusEffect"
         /\ ~effects[e].spec.indefinite_pingpong
         /\ effects[e].spec.total_effect_time > 0
    ELSE FALSE

\* effect e is Completed, out of its device's active set, and no coroutine is
\* still suspended in its await_completion()
Finished(e) ==
    IF e \in 1..Len(effects)
    THEN /\ is_completed(e)
         /\ e \notin DOMAIN active_effects[effects[e].device]
         /\ \A w \in Waiters : waiters[w].st = "idle" \/ waiters[w].e # e
    ELSE FALSE

\* C5: while the controller is started and not stopped, every finite effect
\* that was added is eventually Completed, removed from its device's active
\* set, and awaited by no suspended coroutine.
C5_FiniteEffectsComplete ==
    \A e \in 1..MaxEffects :
        (FiniteEffect(e) /\ asyncio_task # 0) ~> (asyncio_task = 0 \/ Finished(e))

\* C6: no tick loop ends through a fault.
C6_LoopSurvivesFaults == \A t \in 1..Len(tasks) : tasks[t].st # "failed"

\* C7: at most one tick loop is running.
C7_AtMostOneLoop == Cardinality(LiveTasks) <= 1

\* C8: while the controller is stopped, no aggregation pass runs.
C8_NoPassAfterStop == asyncio_task = 0 => tick.task = 0

\* C9: stop() on a controller that has no task raises nothing and changes
\* neither the devices, their active sets, the effects nor the stopped state.
C9_StopIdempotent ==
    [][ (Stop /\ asyncio_task = 0) =>
            /\ ret'.result = "ok"
            /\ UNCHANGED <<now, effects, active_effects, asyncio_task, tasks,
                           tick, waiters>>
      ]_vars

\* stop() was called on a controller that was never started
C9_Witness == ret.op = "stop" /\ tasks = <<>>

\* C10: add_effect under a name that is no device of the controller fails
\* with a KeyError, binds no effect and changes no active set.
C10_UnknownDeviceFails ==
    [][ \A sub \in Submissions :
            (sub[1] \notin DeviceNames /\ AddEffect(sub[1], sub[2])) =>
                /\ ret'.result = "KeyError"
                /\ UNCHANGED <<now, effects, active_effects, asyncio_task,
                               tasks, tick, waiters>>
      ]_vars

\* the call failed
C10_Witness == ret = [op |-> "add_effect", result |-> "KeyError"]

\* C11: the frame a pass forwards has every element in 0..255: where the sum
\* of the effects' rows is above 255 it is 255, where the sum is below 0 it
\* is 0, and where the sum is within 0..255 it is the sum.
C11_ForwardedFrameClamped ==
    [][ (PassIterated /\ Len(tick'.forwarded) = Len(tick.forwarded) + 1) =>
            LET shape == state_shape(PassDevice)
                sum   == SumRows(tick.state_matrix, shape)
                sent  == tick'.forwarded[Len(tick'.forwarded)]
            IN  \A p \in 1..shape[1], c \in 1..shape[2] :
                    /\ sent[p][c] \in 0..255
                    /\ sum[p][c] > 255 => sent[p][c] = 255
                    /\ sum[p][c] \in 0..255 => sent[p][c] = sum[p][c]
      ]_vars

\* strip2 received a frame with a pixel at 255 where a white pingpong pixel
\* and the sinus wave added up to more
C11_Witness ==
    /\ tick.task # 0
    /\ Len(tick.forwarded) = 2
    /\ \E e1, e2 \in DOMAIN active_effects["strip2"] :
           /\ effects[e1].spec = PingPong /\ ~is_completed(e1)
           /\ effects[e2].spec = Sinus /\ ~is_completed(e2)
    /\ \E p \in 1..state_shape("strip2")[1] :
           tick.forwarded[2][p] = <<255, 255, 255>>

\* C12: for a moving effect of any family called at any elapsed time, the
\* frame of the reversed effect is the pixel-axis reversal of the frame the
\* same spec with reversed = False gives at that time, and the other way
\* round.
C12_ReversedIsMirror ==
    (probe.op = "call" /\ probe.spec.effect_cls # "SinusEffect") =>
        LET shape == state_shape(probe.device)
            other == Call([probe.spec EXCEPT !.reversed = ~@], shape, probe.r)
        IN  /\ probe.result.raised = ""
            /\ other.raised = ""
            /\ probe.result.out = ReverseFrame(other.out)
            /\ other.out = ReverseFrame(probe.result.out)

\* a reversed effect gave a frame that is not its own mirror image
C12_Witness ==
    /\ probe.op = "call"
    /\ probe.spec.reversed
    /\ probe.spec.indefinite_pingpong
    /\ probe.r > probe.spec.total_effect_time * TicksPerSec
    /\ probe.result.out # ReverseFrame(probe.result.out)

\* an effect that has no end of its own: a sinus wave, or a moving effect in
\* indefinite-pingpong mode
Endless(e) ==
    IF e \in 1..Len(effects)
    THEN effects[e].spec.effect_cls = "SinusEffect"
             \/ effects[e].spec.indefinite_pingpong
    ELSE FALSE

\* C13: an endless effect becomes Completed only in a step that is its
\* cancel(): no evaluation by the tick loop, at any elapsed time, completes it.
C13_EndlessOnlyCancelled ==
    [][ \A e \in 1..Len(effects) :
            (Endless(e) /\ ~is_completed(e) /\ effects'[e].completed) =>
                Cancel(e)
      ]_vars

\* a pass called a pingpong effect past its total_effect_time and left it
\* Active
C13_Witness ==
    /\ InPass
    /\ \E e \in tick.called :
           /\ effects[e].spec.indefinite_pingpong
           /\ ~is_completed(e)
           /\ e \in DOMAIN active_effects[PassDevice]
           /\ ticks_diff(tick.current_ticks_us, active_effects[PassDevice][e])
                  > effects[e].spec.total_effect_time * TicksPerSec

\* C14: add_effect binds a new effect that holds the submitted spec as it
\* was and is not Completed, and changes no effect bound before; a step in
\* which one effect becomes Completed changes no other effect, even one of
\* the same spec, and no coroutine that awaits another effect.
C14_BindingIndependent ==
    [][ /\ \A sub \in BindSubmissions :
               AddEffect(sub[1], sub[2]) =>
                   effects' = Append(effects, [spec |-> sub[2], device |-> sub[1],
                                               completed |-> FALSE])
        /\ \A e \in 1..Len(effects), f \in 1..Len(effects) :
               (e # f /\ ~is_completed(e) /\ effects'[e].completed) =>
                   /\ effects'[f] = effects[f]
                   /\ \A w \in Waiters :
                          waiters[w].e = f => waiters'[w] = waiters[w]
      ]_vars

\* two effects of one spec on different devices: one is Completed, the other
\* is Active and a coroutine is still suspended on it
C14_Witness ==
    \E e \in 1..Len(effects), f \in 1..Len(effects) :
        /\ effects[e].spec = effects[f].spec
        /\ effects[e].device # effects[f].device
        /\ is_completed(e)
        /\ ~is_completed(f)
        /\ \E w \in Waiters : waiters[w] = [st |-> "waiting", e |-> f]

\* C15: when a pass has iterated over a device's active set, no effect left
\* in the set is Completed: an effect whose flag was set before the pass, or
\* that crossed its threshold in this pass, was removed by this pass.
C15_RemovedInSamePass ==
    PassIterated =>
        \A e \in DOMAIN active_effects[PassDevice] : ~is_completed(e)

\* C16: a pass never changes the active set while its iteration over the
\* set is still in progress: removals happen only after the last effect was
\* visited.
C16_RemovalAfterIteration ==
    [][ (InPass /\ tick.todo # {}) =>
            active_effects'[PassDevice] = active_effects[PassDevice]
      ]_vars

\* the elapsed time at which the running pass evaluates effect e
PassElapsed(e) ==
    ticks_diff(tick.current_ticks_us, active_effects[PassDevice][e])

\* C17: a pass that evaluates a finite effect at an elapsed time up to its
\* duration leaves it Active; one that evaluates it past its duration marks
\* it Completed and stores an all-zero frame of the device's shape as its
\* contribution; and a completion flag that is set is never cleared.
C17_TerminationRule ==
    [][ /\ \A e \in 1..Len(effects) : is_completed(e) => effects'[e].completed
        /\ \A e \in 1..Len(effects) :
               (FiniteEffect(e) /\ Evaluates(e) /\ Visit(e)) =>
                   LET D == effects[e].spec.total_effect_time * TicksPerSec
                   IN  /\ PassElapsed(e) <= D => ~effects'[e].completed
                       /\ PassElapsed(e) > D =>
                              /\ effects'[e].completed
                              /\ e \in DOMAIN active_effects'[PassDevice]
                              /\ tick'.state_matrix[tick.i + 1]
                                     = Zeros(state_shape(PassDevice))
      ]_vars

\* a pass has just completed a finite effect that it evaluated past its
\* duration
C17_Witness ==
    /\ InPass
    /\ \E e \in tick.called :
           /\ FiniteEffect(e)
           /\ e \in tick.was_active
           /\ is_completed(e)
           /\ PassElapsed(e) > effects[e].spec.total_effect_time * TicksPerSec

\* C18: a single-pixel effect that is neither reversed nor in pingpong mode,
\* called at an elapsed time t within its duration D on a device of N
\* pixels, returns a frame whose pixel min(floor(N * t / D), N - 1) holds the
\* colour and whose other pixels are zero; that index is within 0..N-1.
C18_SinglePixelPosition ==
    (/\ probe.op = "call"
     /\ probe.spec.effect_cls = "SinglePixelMovingEffect"
     /\ ~probe.spec.reversed
     /\ ~probe.spec.indefinite_pingpong
     /\ probe.r <= probe.spec.total_effect_time * TicksPerSec) =>
        LET shape == state_shape(probe.device)
            N     == shape[1]
            D     == probe.spec.total_effect_time * TicksPerSec
            floor == (N * probe.r) \div D
            idx   == IF floor < N - 1 THEN floor ELSE N - 1
        IN  /\ probe.result.raised = ""
            /\ ~probe.result.completed
            /\ idx \in 0..(N - 1)
            /\ probe.result.out =
                   [p \in 1..N |->
                       IF p = idx + 1 THEN probe.spec.rgb_color
                       ELSE [c \in 1..shape[2] |-> 0]]

\* a red pixel at nine tenths of its duration on the 2-pixel device
C18_Witness ==
    /\ probe.op = "call"
    /\ probe.device = "strip1"
    /\ probe.spec = MovingSpec("SinglePixelMovingEffect", 5, <<255, 0, 0>>,
                               FALSE, FALSE)
    /\ probe.r = 9
    /\ probe.result.out = << <<0, 0, 0>>, <<255, 0, 0>> >>

\* C19: in pingpong mode with duration D on N pixels the position is a
\* reflection of period 2D: at every t within 0..D the positions at 2D - t
\* and at t + 2D equal the position at t, and every position lies within
\* 0..N-1.
C19_PingpongReflection ==
    (/\ probe.op = "call"
     /\ probe.spec.effect_cls # "SinusEffect"
     /\ probe.spec.indefinite_pingpong) =>
        LET shape == state_shape(probe.device)
            N     == shape[1]
            D     == probe.spec.total_effect_time * TicksPerSec
        IN  /\ probe.pos >= 0
            /\ probe.pos <= (N - 1) * D
            /\ probe.r <= D =>
                   /\ PosOf(probe.spec, shape, 2 * D - probe.r) = probe.pos
                   /\ PosOf(probe.spec, shape, probe.r + 2 * D) = probe.pos
            /\ probe.r >= 2 * D =>
                   PosOf(probe.spec, shape, probe.r - 2 * D) = probe.pos

\* a pingpong effect on its way back, at one and a half durations, where it
\* was at half its duration: between the first and the last pixel
C19_Witness ==
    /\ probe.op = "call"
    /\ probe.spec.indefinite_pingpong
    /\ probe.spec.effect_cls = "GaussianMovingEffect"
    /\ probe.device = "strip2"
    /\ 2 * probe.r = 3 * probe.spec.total_effect_time * TicksPerSec
    /\ probe.pos > 0
    /\ probe.pos = PosOf(probe.spec, state_shape(probe.device),
                         (probe.spec.total_effect_time * TicksPerSec) \div 2)

\* a step of the user's coroutines: add_effect, cancel, start, stop,
\* await_completion or the return from it
UserStep ==
    \/ \E sub \in Submissions : AddEffect(sub[1], sub[2])
    \/ \E e \in 1..Len(effects) : Cancel(e)
    \/ Start
    \/ Stop
    \/ \E w \in Waiters, e \in 1..Len(effects) : AwaitCompletion(w, e)
    \/ \E w \in Waiters : Resume(w)

\* C20: from the capture of the tick's timestamp to the update of the last
\* device no step of the user's coroutines happens; the timestamp of the
\* tick stays the one captured, whatever the clock does meanwhile; and an
\* effect is first evaluated in a tick that began after it was added.
C20_TickAtomic ==
    [][ /\ tick.task # 0 => ~UserStep
        /\ (tick.task # 0 /\ tick'.task # 0) =>
               /\ tick'.task = tick.task
               /\ tick'.current_ticks_us = tick.current_ticks_us
        /\ \A e \in 1..MaxEffects :
               (e \in tick'.called /\ e \notin tick.called) =>
                   e \in tick.was_active
      ]_vars

\* the second device is being evaluated after the clock has moved on since
\* the timestamp was captured
C20_Witness ==
    /\ tick.task # 0
    /\ tick.dev = 2
    /\ tick.called # {}
    /\ now # tick.current_ticks_us

\* C21: the elapsed time a pass gives to an effect of the active set is never
\* negative, however long the effect has been registered.
C21_ElapsedNonNegative ==
    InPass =>
        \A e \in tick.called \cap DOMAIN active_effects[PassDevice] :
            PassElapsed(e) >= 0

====
